---------------------------- MODULE Spec2Model ----------------------------
(* Conway's Game of Life engine of rust-way-of-life (src/src/lib.rs).      *)
(* Strings are sequences of characters; a character is named by a TLA+     *)
(* string.  Rust vectors are 0-indexed, TLA+ sequences 1-indexed: Get      *)
(* does the translation.                                                   *)
EXTENDS Integers, Sequences, FiniteSets, TLC

(* ------------------------------ bounds --------------------------------- *)
MaxWidth == 3
MaxHeight == 3
MaxSeed == 511
MaxTicks == 2
MaxLayoutLen == 5

(* ---------------------------- characters ------------------------------- *)
LF == "LF"
\* a glyph outside ASCII: one char, two bytes in UTF-8
EAcute == "U+00E9"
Glyphs == {"#", ".", "x", EAcute}
Chars == Glyphs \cup {LF}

\* str::len() counts bytes, not chars
Utf8Len(c) == IF c = EAcute THEN 2 ELSE 1

RECURSIVE ByteLen(_)
ByteLen(s) == IF s = <<>> THEN 0 ELSE Utf8Len(Head(s)) + ByteLen(Tail(s))

\* str::chars(): the characters of the string, in order
CharsOf(s) == s

\* str::lines(): split at line feeds; a final empty piece is no line
RECURSIVE UpToLF(_)
UpToLF(s) == IF s = <<>> \/ Head(s) = LF THEN <<>>
             ELSE <<Head(s)>> \o UpToLF(Tail(s))

RECURSIVE AfterLF(_)
AfterLF(s) == IF s = <<>> THEN <<>>
              ELSE IF Head(s) = LF THEN Tail(s)
              ELSE AfterLF(Tail(s))

RECURSIVE Lines(_)
Lines(s) == IF s = <<>> THEN <<>>
            ELSE <<UpToLF(s)>> \o Lines(AfterLF(s))

(* ------------------------------ vectors -------------------------------- *)
\* slice::get(idx) for idx: usize; Option is a sequence of 0 or 1 element
Get(vec, idx) == IF idx >= 0 /\ idx < Len(vec) THEN <<vec[idx + 1]>> ELSE <<>>

RECURSIVE Flatten(_)
Flatten(ss) == IF ss = <<>> THEN <<>> ELSE Head(ss) \o Flatten(Tail(ss))

\* Rust's % on i32 truncates toward zero
Rem(a, b) == IF a >= 0 THEN a % b ELSE 0 - ((0 - a) % b)

(* ------------------------------- Cell ---------------------------------- *)
Cell(alive) == [alive |-> alive]

to_cell(c) == Cell(c = "#")

(* ------------------------------- Game ---------------------------------- *)
Game(cells, iteration_count, wrapping) ==
  [cells |-> cells, iteration_count |-> iteration_count, wrapping |-> wrapping]

\* the injected random source: a fixed stream of u32 values per seed
\* (the i-th draw of the stream of a seed, seeds below 2^31)
NextU32(seed, i) == seed \div (2 ^ i)

\* mutant: the draws are handed out column by column
new_column_major(width, height, seed, wrapping) ==
  Game([y \in 1..height |->
          [x \in 1..width |->
             Cell(NextU32(seed, (x - 1) * height + (y - 1)) % 2 = 0)]],
       0, wrapping)

\* mutant: width and height exchanged
new_mut(width, height, seed, wrapping) ==
  Game([y \in 1..width |->
          [x \in 1..height |->
             Cell(NextU32(seed, (y - 1) * height + (x - 1)) % 2 = 0)]],
       0, wrapping)

new(width, height, seed, wrapping) ==
  Game([y \in 1..height |->
          [x \in 1..width |->
             Cell(NextU32(seed, (y - 1) * width + (x - 1)) % 2 = 0)]],
       0, wrapping)

\* from_specific panics on lines[0] of a layout without lines, and on a
\* line whose byte length differs from the first line's
from_specific_panics(layout) ==
  LET lines == Lines(layout)
  IN  \/ Len(lines) = 0
      \/ \E i \in 1..Len(lines) : ByteLen(lines[i]) # ByteLen(lines[1])

from_specific(layout, wrapping) ==
  LET lines == Lines(layout)
  IN  Game([y \in 1..Len(lines) |->
              [x \in 1..Len(CharsOf(lines[y])) |-> to_cell(CharsOf(lines[y])[x])]],
           0, wrapping)

(* ---------------------------- neighbours ------------------------------- *)
get_if_positive(vec, idx) == IF idx >= 0 THEN Get(vec, idx) ELSE <<>>

\* mutant: the range x-1..x+1 without its last column
get_three_of_row_mut(x, row) ==
  Flatten([k \in 1..2 |-> get_if_positive(row, x - 2 + k)])

get_three_of_row(x, row) ==
  Flatten([k \in 1..3 |-> get_if_positive(row, x - 2 + k)])

\* mutant: row 0 taken for a row outside the grid
get_or_empty_mut(vec, x, y) ==
  IF y > 0
  THEN IF Get(vec, y) # <<>> THEN get_three_of_row(x, Get(vec, y)[1]) ELSE <<>>
  ELSE <<>>

get_or_empty(vec, x, y) ==
  IF y >= 0
  THEN IF Get(vec, y) # <<>> THEN get_three_of_row(x, Get(vec, y)[1]) ELSE <<>>
  ELSE <<>>

\* mutant: the truncating remainder alone, negative for idx = -1
wrap_mut(idx, len) == Rem(idx, len)

wrap(idx, len) ==
  IF idx < 0 THEN len + Rem(idx, len) ELSE Rem(idx, len)

get_wrapping(cells, x, y) ==
  LET y_wrapped == wrap(y, Len(cells))
  IN  IF Get(cells, y_wrapped) # <<>>
      THEN get_three_of_row(x, Get(cells, y_wrapped)[1])
      ELSE <<>>

get_three(game, x, y) ==
  IF game.wrapping THEN get_wrapping(game.cells, x, y)
  ELSE get_or_empty(game.cells, x, y)

\* mutant: only the left neighbour of the same row
get_two_mut(game, x, y) == get_if_positive(game.cells[y + 1], x - 1)

get_two(game, x, y) ==
  Flatten([k \in 1..2 |->
             get_if_positive(game.cells[y + 1], IF k = 1 THEN x - 1 ELSE x + 1)])

get_neighbours(game, x, y) ==
  LET prev_row == get_three(game, x, y - 1)
      next_row == get_three(game, x, y + 1)
      same_row == get_two(game, x, y)
  IN  prev_row \o same_row \o next_row

(* where tick can panic: the division in wrap and the index in get_two *)
\* idx % len divides by zero when len = 0
wrap_panics(idx, len) == len = 0

get_three_panics(game, x, y) ==
  game.wrapping /\ wrap_panics(y, Len(game.cells))

\* mutant: the row taken with the column index, game.cells[x]
get_two_panics_mut(game, x, y) == ~(x < Len(game.cells))

\* game.cells[y] is out of range when y >= game.cells.len()
get_two_panics(game, x, y) == ~(y < Len(game.cells))

get_neighbours_panics(game, x, y) ==
  \/ get_three_panics(game, x, y - 1)
  \/ get_three_panics(game, x, y + 1)
  \/ get_two_panics(game, x, y)

tick_panics(self) ==
  \E yy \in 1..Len(self.cells) : \E xx \in 1..Len(self.cells[yy]) :
    get_neighbours_panics(self, xx - 1, yy - 1)

AliveCount(cs) == Cardinality({i \in 1..Len(cs) : cs[i].alive})

\* mutant: a living cell with 2 alive neighbours dies
staying_alive_mut(cell, neighbours) ==
  LET alive_neighbours_count == AliveCount(neighbours)
  IN  alive_neighbours_count = 3

\* mutant: a living cell survives with up to 3 alive neighbours
staying_alive_lonely(cell, neighbours) ==
  LET alive_neighbours_count == AliveCount(neighbours)
  IN  IF cell.alive
      THEN alive_neighbours_count <= 3
      ELSE alive_neighbours_count = 3

staying_alive(cell, neighbours) ==
  LET alive_neighbours_count == AliveCount(neighbours)
  IN  IF cell.alive
      THEN alive_neighbours_count = 2 \/ alive_neighbours_count = 3
      ELSE alive_neighbours_count = 3

\* mutant: the cells are updated in place, in row-major order, so that a
\* cell sees the new state of the neighbours computed before it
RECURSIVE InPlace(_, _, _)
InPlace(g, yy, xx) ==
  IF yy > Len(g.cells) THEN g
  ELSE IF xx > Len(g.cells[yy]) THEN InPlace(g, yy + 1, 1)
  ELSE InPlace([g EXCEPT !.cells[yy][xx] =
                  Cell(staying_alive(g.cells[yy][xx],
                                     get_neighbours(g, xx - 1, yy - 1)))],
               yy, xx + 1)

tick_in_place(self) ==
  Game(InPlace(self, 1, 1).cells, self.iteration_count + 1, self.wrapping)

\* mutant: the result is built afresh with wrapping off instead of cloned
tick_unwrapped(self) ==
  Game([yy \in 1..Len(self.cells) |->
          [xx \in 1..Len(self.cells[yy]) |->
             Cell(staying_alive(self.cells[yy][xx],
                                get_neighbours(self, xx - 1, yy - 1)))]],
       self.iteration_count + 1, FALSE)

\* mutant: the clone's iteration_count is left as it was
tick_mut(self) ==
  Game([yy \in 1..Len(self.cells) |->
          [xx \in 1..Len(self.cells[yy]) |->
             Cell(staying_alive(self.cells[yy][xx],
                                get_neighbours(self, xx - 1, yy - 1)))]],
       self.iteration_count, self.wrapping)

tick(self) ==
  Game([yy \in 1..Len(self.cells) |->
          [xx \in 1..Len(self.cells[yy]) |->
             Cell(staying_alive(self.cells[yy][xx],
                                get_neighbours(self, xx - 1, yy - 1)))]],
       self.iteration_count + 1, self.wrapping)

\* mutant: the Game tick is called on takes the new cells
tick_self_mut(self) == [self EXCEPT !.cells = tick(self).cells]

\* the Game tick was called on, after the call: tick borrows &self and
\* writes only to its clone
tick_self(self) == self

row_columns(self) == self.cells

(* ----------------------------- Display --------------------------------- *)
Digit(d) == CASE d = 0 -> "0" [] d = 1 -> "1" [] d = 2 -> "2" [] d = 3 -> "3"
              [] d = 4 -> "4" [] d = 5 -> "5" [] d = 6 -> "6" [] d = 7 -> "7"
              [] d = 8 -> "8" [] d = 9 -> "9"

\* u64 formatted with {}: decimal digits, no padding
RECURSIVE Decimal(_)
Decimal(n) == IF n < 10 THEN <<Digit(n)>>
              ELSE Decimal(n \div 10) \o <<Digit(n % 10)>>

\* mutant: the alive glyph of main.rs' print
fmt_mut(self) ==
  LET state == Flatten([y \in 1..Len(row_columns(self)) |->
                 [x \in 1..Len(row_columns(self)[y]) |->
                    IF row_columns(self)[y][x].alive THEN "x" ELSE "."]
                 \o <<LF>>])
  IN  <<"i", "t", "e", "r", "a", "t", "i", "o", "n", " ">>
        \o Decimal(self.iteration_count) \o <<":", LF>> \o state

fmt(self) ==
  LET state == Flatten([y \in 1..Len(row_columns(self)) |->
                 [x \in 1..Len(row_columns(self)[y]) |->
                    IF row_columns(self)[y][x].alive THEN "#" ELSE "."]
                 \o <<LF>>])
  IN  <<"i", "t", "e", "r", "a", "t", "i", "o", "n", " ">>
        \o Decimal(self.iteration_count) \o <<":", LF>> \o state

(* ------------------------- layouts of the tests ------------------------ *)
RECURSIVE JoinLF(_)
JoinLF(ls) == IF Len(ls) = 0 THEN <<>>
              ELSE IF Len(ls) = 1 THEN Head(ls)
              ELSE Head(ls) \o <<LF>> \o JoinLF(Tail(ls))

blinker_wrapped_left ==
  JoinLF(<< <<".", ".", ".", ".", ".">>,
            <<"#", ".", ".", ".", ".">>,
            <<"#", ".", ".", ".", ".">>,
            <<"#", ".", ".", ".", ".">>,
            <<".", ".", ".", ".", ".">> >>)

blinker_vert_wrapped_left ==
  JoinLF(<< <<".", ".", ".", ".", ".">>,
            <<".", ".", ".", ".", ".">>,
            <<"#", "#", ".", ".", "#">>,
            <<".", ".", ".", ".", ".">>,
            <<".", ".", ".", ".", ".">> >>)

block ==
  JoinLF(<< <<".", ".", ".", ".">>,
            <<".", "#", "#", ".">>,
            <<".", "#", "#", ".">>,
            <<".", ".", ".", ".">> >>)

beehive ==
  JoinLF(<< <<".", ".", ".", ".", ".", ".">>,
            <<".", ".", "#", "#", ".", ".">>,
            <<".", "#", ".", ".", "#", ".">>,
            <<".", ".", "#", "#", ".", ".">>,
            <<".", ".", ".", ".", ".", ".">> >>)

blinker ==
  JoinLF(<< <<".", ".", ".", ".", ".">>,
            <<".", ".", "#", ".", ".">>,
            <<".", ".", "#", ".", ".">>,
            <<".", ".", "#", ".", ".">>,
            <<".", ".", ".", ".", ".">> >>)

blinker_vert ==
  JoinLF(<< <<".", ".", ".", ".", ".">>,
            <<".", ".", ".", ".", ".">>,
            <<".", "#", "#", "#", ".">>,
            <<".", ".", ".", ".", ".">>,
            <<".", ".", ".", ".", ".">> >>)

blinker_wrapped ==
  JoinLF(<< <<".", ".", "#", ".", ".">>,
            <<".", ".", "#", ".", ".">>,
            <<".", ".", ".", ".", ".">>,
            <<".", ".", ".", ".", ".">>,
            <<".", ".", "#", ".", ".">> >>)

blinker_vert_wrapped ==
  JoinLF(<< <<".", "#", "#", "#", ".">>,
            <<".", ".", ".", ".", ".">>,
            <<".", ".", ".", ".", ".">>,
            <<".", ".", ".", ".", ".">>,
            <<".", ".", ".", ".", ".">> >>)

\* further layouts given to from_specific: blinkers on grids of other sizes
blinker_narrow ==
  JoinLF(<< <<".", ".", ".">>,
            <<".", "#", ".">>,
            <<".", "#", ".">>,
            <<".", "#", ".">>,
            <<".", ".", ".">> >>)

blinker_offset ==
  JoinLF(<< <<".", ".", ".", ".">>,
            <<".", ".", ".", ".">>,
            <<".", ".", "#", ".">>,
            <<".", ".", "#", ".">>,
            <<".", ".", "#", ".">>,
            <<".", ".", ".", ".">> >>)

MoreLayouts == {blinker_narrow, blinker_offset}

Fixtures == {block, beehive, blinker, blinker_vert, blinker_wrapped,
             blinker_vert_wrapped, blinker_wrapped_left,
             blinker_vert_wrapped_left}

(* --------------------------- state machine ----------------------------- *)
VARIABLES
  pc,      \* "start", "constructed", "ticked" or "panicked"
  call,    \* the constructor call that was made, with its arguments
  game,    \* the Game the caller holds
  old,     \* the Game the last tick was called on
  nticks,  \* number of tick calls made
  out      \* the last string produced by Display

vars == <<pc, call, game, old, nticks, out>>

NoGame == Game(<<>>, 0, FALSE)

Call(fn, width, height, seed, layout, wrapping) ==
  [fn |-> fn, width |-> width, height |-> height, seed |-> seed,
   layout |-> layout, wrapping |-> wrapping]

Layouts == UNION {[1..n -> Chars] : n \in 0..MaxLayoutLen} \cup Fixtures \cup MoreLayouts

Init ==
  /\ pc = "start"
  /\ call = Call("none", 0, 0, 0, <<>>, FALSE)
  /\ game = NoGame
  /\ old = NoGame
  /\ nticks = 0
  /\ out = <<>>

New ==
  /\ pc = "start"
  /\ \E width \in 0..MaxWidth, height \in 0..MaxHeight,
        seed \in 0..MaxSeed, wrapping \in BOOLEAN :
       /\ call' = Call("new", width, height, seed, <<>>, wrapping)
       /\ game' = new(width, height, seed, wrapping)
  /\ pc' = "constructed"
  /\ UNCHANGED <<old, nticks, out>>

FromSpecific ==
  /\ pc = "start"
  /\ \E layout \in Layouts, wrapping \in BOOLEAN :
       /\ call' = Call("from_specific", 0, 0, 0, layout, wrapping)
       /\ IF from_specific_panics(layout)
          THEN pc' = "panicked" /\ game' = game
          ELSE pc' = "constructed" /\ game' = from_specific(layout, wrapping)
  /\ UNCHANGED <<old, nticks, out>>

Tick ==
  /\ pc \in {"constructed", "ticked"}
  /\ nticks < MaxTicks
  /\ IF tick_panics(game)
     THEN pc' = "panicked" /\ UNCHANGED <<game, old, nticks>>
     ELSE /\ old' = tick_self(game)
          /\ game' = tick(game)
          /\ nticks' = nticks + 1
          /\ pc' = "ticked"
  /\ UNCHANGED <<call, out>>

Fmt ==
  /\ pc \in {"constructed", "ticked"}
  /\ out' = fmt(game)
  /\ UNCHANGED <<pc, call, game, old, nticks>>

Next == New \/ FromSpecific \/ Tick \/ Fmt

Spec == Init /\ [][Next]_vars

TypeOK ==
  /\ pc \in {"start", "constructed", "ticked", "panicked"}
  /\ nticks \in 0..MaxTicks
  /\ game.iteration_count \in Nat
  /\ game.wrapping \in BOOLEAN

(* ------------------------ reference definitions ------------------------ *)
Height(cells) == Len(cells)
Width(cells) == IF Len(cells) = 0 THEN 0 ELSE Len(cells[1])
Rectangular(cells) == \A y \in 1..Len(cells) : Len(cells[y]) = Width(cells)
SameShape(a, b) ==
  /\ Len(a) = Len(b)
  /\ \A y \in 1..Len(a) : Len(a[y]) = Len(b[y])

Offsets == ({-1, 0, 1} \X {-1, 0, 1}) \ {<<0, 0>>}

\* mathematical modulo, never negative
Mod(a, m) == ((a % m) + m) % m

\* cell at column x, row y, both counted from 0
CellAt(cells, x, y) == cells[y + 1][x + 1]

TorusAliveCount(cells, x, y) ==
  Cardinality({d \in Offsets :
    CellAt(cells, Mod(x + d[1], Width(cells)), Mod(y + d[2], Height(cells))).alive})

InGridAliveCount(cells, x, y) ==
  Cardinality({d \in Offsets :
    /\ x + d[1] >= 0 /\ x + d[1] < Width(cells)
    /\ y + d[2] >= 0 /\ y + d[2] < Height(cells)
    /\ CellAt(cells, x + d[1], y + d[2]).alive})

\* B3/S23
Life(alive, n) == (alive /\ n \in {2, 3}) \/ (~alive /\ n = 3)

Ticked == pc = "ticked"
Constructed == pc = "constructed"
HasGame == pc \in {"constructed", "ticked"}

(* ------------------------------ claims --------------------------------- *)

\* C1: in wrapping mode, on every rectangular grid with width >= 1 and
\* height >= 1, tick gives each cell the B3/S23 outcome of the eight old
\* positions taken modulo width and height (columns wrap like rows).
C1_WrappingIsToroidal ==
  (Ticked /\ old.wrapping /\ Rectangular(old.cells)
     /\ Width(old.cells) >= 1 /\ Height(old.cells) >= 1)
  => /\ SameShape(game.cells, old.cells)
     /\ \A y \in 0..(Height(old.cells) - 1), x \in 0..(Width(old.cells) - 1) :
          CellAt(game.cells, x, y).alive
            = Life(CellAt(old.cells, x, y).alive, TorusAliveCount(old.cells, x, y))

RECURSIVE CountAlive(_)
CountAlive(cs) == IF cs = <<>> THEN 0
                  ELSE (IF Head(cs).alive THEN 1 ELSE 0) + CountAlive(Tail(cs))

\* C3: in either mode a cell is alive after tick iff it was alive with
\* exactly 2 or 3 alive entries in its neighbour list, or dead with exactly
\* 3; every other count leaves it dead.
C3_SurvivalRule ==
  Ticked =>
    \A y \in 1..Len(old.cells) : \A x \in 1..Len(old.cells[y]) :
      LET n == CountAlive(get_neighbours(old, x - 1, y - 1))
          was == old.cells[y][x].alive
          is == game.cells[y][x].alive
      IN  /\ is <=> ((was /\ (n = 2 \/ n = 3)) \/ (~was /\ n = 3))
          /\ n \in {0, 1, 4, 5, 6, 7, 8} => ~is

\* one tick showing a survival, a birth and a death with 4 or more neighbours
C3_Witness ==
  /\ Ticked
  /\ \E y \in 1..Len(old.cells) : \E x \in 1..Len(old.cells[y]) :
       /\ old.cells[y][x].alive /\ game.cells[y][x].alive
       /\ CountAlive(get_neighbours(old, x - 1, y - 1)) = 2
  /\ \E y \in 1..Len(old.cells) : \E x \in 1..Len(old.cells[y]) :
       /\ ~old.cells[y][x].alive /\ game.cells[y][x].alive
  /\ \E y \in 1..Len(old.cells) : \E x \in 1..Len(old.cells[y]) :
       /\ old.cells[y][x].alive /\ ~game.cells[y][x].alive
       /\ CountAlive(get_neighbours(old, x - 1, y - 1)) >= 4

FromLayout == call.fn = "from_specific"
LayoutLines == Lines(call.layout)
\* number of characters of a line
CharCount(line) == Len(line)
EqualCharCounts(lines) ==
  \A i \in 1..Len(lines) : CharCount(lines[i]) = CharCount(lines[1])

\* C4: from_specific panics and returns no Game whenever some line of the
\* layout has a character count different from the first line's.
C4_UnequalLinesPanic ==
  (FromLayout /\ ~EqualCharCounts(LayoutLines)) => (pc = "panicked" /\ game = NoGame)

\* the Game the constructor call returned
Constructed0 ==
  IF call.fn = "new"
  THEN new(call.width, call.height, call.seed, call.wrapping)
  ELSE from_specific(call.layout, call.wrapping)

\* C5: in every Game reached by a successful construction and any number
\* of ticks all rows have the same length, and height and width are those
\* of the constructed grid.
C5_ShapeInvariant ==
  HasGame =>
    /\ Rectangular(game.cells)
    /\ Height(game.cells) = Height(Constructed0.cells)
    /\ Width(game.cells) = Width(Constructed0.cells)

\* C6: for a layout of one or more lines of equal length, from_specific
\* returns a grid with one row per line in order and one cell per character
\* in order, a cell being alive iff its character is '#'.
C6_LayoutToCells ==
  (FromLayout /\ Len(LayoutLines) >= 1 /\ EqualCharCounts(LayoutLines))
  => /\ pc # "panicked"
     /\ Constructed =>
          /\ Len(game.cells) = Len(LayoutLines)
          /\ \A y \in 1..Len(LayoutLines) :
               /\ Len(game.cells[y]) = CharCount(LayoutLines[y])
               /\ \A x \in 1..CharCount(LayoutLines[y]) :
                    game.cells[y][x].alive <=> (LayoutLines[y][x] = "#")

\* C7: for all width >= 0 and height >= 0, any seed and either mode,
\* Game::new succeeds and returns exactly height rows of exactly width cells.
C7_NewDimensions ==
  (call.fn = "new")
  => /\ pc # "panicked"
     /\ Constructed =>
          /\ Len(row_columns(game)) = call.height
          /\ \A y \in 1..Len(row_columns(game)) :
               Len(row_columns(game)[y]) = call.width

\* a grid of two rows without columns, and a 2x3 grid
C7_Witness ==
  /\ Constructed /\ call.fn = "new"
  /\ \/ call.width = 0 /\ call.height = 2 /\ game.cells = <<<<>>, <<>>>>
     \/ call.width = 2 /\ call.height = 3 /\ Len(game.cells) = 3

\* C8: both constructors return iteration_count = 0 and every tick
\* returns a count one more than its input's, so after n ticks it is n.
C8_IterationCount ==
  /\ Constructed => game.iteration_count = 0
  /\ Ticked => game.iteration_count = old.iteration_count + 1
  /\ HasGame => game.iteration_count = nticks

C8_Witness ==
  /\ Ticked /\ nticks = 2 /\ game.iteration_count = 2 /\ old.iteration_count = 1

IsPrefix(p, s) == Len(p) <= Len(s) /\ SubSeq(s, 1, Len(p)) = p
StripPrefix(p, s) == SubSeq(s, Len(p) + 1, Len(s))
Header0 == <<"i", "t", "e", "r", "a", "t", "i", "o", "n", " ", "0", ":", LF>>

RECURSIVE EachWithLF(_)
EachWithLF(lines) == IF lines = <<>> THEN <<>>
                     ELSE Head(lines) \o <<LF>> \o EachWithLF(Tail(lines))

OverHashDot(layout) == \A i \in 1..Len(layout) : layout[i] \in {"#", ".", LF}

\* C9: for a layout of one or more equal-length lines over '#' and '.',
\* the rendering of from_specific(layout) without its header line
\* 'iteration 0:' is exactly the layout's lines, each followed by a line break.
C9_RoundTrip ==
  (FromLayout /\ OverHashDot(call.layout) /\ Len(LayoutLines) >= 1
     /\ EqualCharCounts(LayoutLines) /\ Constructed /\ out # <<>>)
  => /\ IsPrefix(Header0, out)
     /\ StripPrefix(Header0, out) = EachWithLF(LayoutLines)

C9_Witness ==
  /\ Constructed /\ FromLayout
  /\ call.layout = <<"#", ".", LF, ".", "#">>
  /\ out = Header0 \o <<"#", ".", LF, ".", "#", LF>>

\* alive exactly at the given set of <<column, row>> positions of a 5x5 grid
Pattern5x5(cells, alive) ==
  /\ Height(cells) = 5 /\ Rectangular(cells) /\ Width(cells) = 5
  /\ \A y \in 0..4, x \in 0..4 : CellAt(cells, x, y).alive <=> (<<x, y>> \in alive)

\* C10: in wrapping mode the vertical line in column 0, rows 1..3, of a
\* 5x5 grid becomes after one tick the line in columns 4, 0, 1 of row 2,
\* and after two ticks the vertical line again.
C10_LeftBlinkerWraps ==
  (FromLayout /\ call.layout = blinker_wrapped_left /\ call.wrapping /\ HasGame)
  => /\ nticks = 0 => Pattern5x5(game.cells, {<<0, 1>>, <<0, 2>>, <<0, 3>>})
     /\ nticks = 1 => Pattern5x5(game.cells, {<<4, 2>>, <<0, 2>>, <<1, 2>>})
     /\ nticks = 2 => Pattern5x5(game.cells, {<<0, 1>>, <<0, 2>>, <<0, 3>>})

\* alive exactly at the given set of <<column, row>> positions of a w x h grid
Pattern(cells, w, h, alive) ==
  /\ Height(cells) = h /\ Rectangular(cells) /\ Width(cells) = w
  /\ \A y \in 0..(h - 1), x \in 0..(w - 1) :
       CellAt(cells, x, y).alive <=> (<<x, y>> \in alive)

\* C11: in wrapping mode the vertical line in column 2 on rows 4, 0, 1 of
\* a 5x5 grid is the horizontal line in columns 1..3 of row 0 after an odd
\* number of ticks and the vertical line again after an even number.
C11_TopBlinkerWraps ==
  (FromLayout /\ call.layout = blinker_wrapped /\ call.wrapping /\ HasGame)
  => /\ nticks % 2 = 0 => Pattern(game.cells, 5, 5, {<<2, 4>>, <<2, 0>>, <<2, 1>>})
     /\ nticks % 2 = 1 => Pattern(game.cells, 5, 5, {<<1, 0>>, <<2, 0>>, <<3, 0>>})

C11_Witness ==
  /\ FromLayout /\ call.layout = blinker_wrapped /\ call.wrapping
  /\ Ticked /\ nticks = 2
  /\ Pattern(old.cells, 5, 5, {<<1, 0>>, <<2, 0>>, <<3, 0>>})
  /\ Pattern(game.cells, 5, 5, {<<2, 4>>, <<2, 0>>, <<2, 1>>})

AliveSet(cells) ==
  {p \in (0..(Width(cells) - 1)) \X (0..(Height(cells) - 1)) :
     CellAt(cells, p[1], p[2]).alive}

VerticalLine(c, r) == {<<c, r - 1>>, <<c, r>>, <<c, r + 1>>}
HorizontalLine(c, r) == {<<c - 1, r>>, <<c, r>>, <<c + 1, r>>}

\* the constructed grid is dead but for a vertical 3-cell line centred at
\* column c, row r, whose cells and their neighbours all lie inside the grid
InteriorBlinker(cells, c, r) ==
  /\ Rectangular(cells)
  /\ c - 1 >= 0 /\ c + 1 < Width(cells)
  /\ r - 2 >= 0 /\ r + 2 < Height(cells)
  /\ AliveSet(cells) = VerticalLine(c, r)

\* C12: in non-wrapping mode a vertical 3-cell line lying with all its
\* neighbours inside an otherwise dead grid is the horizontal line through
\* the same centre after every odd number of ticks and the vertical line
\* after every even number.
C12_InteriorBlinker ==
  (HasGame /\ ~call.wrapping) =>
    \A c \in 0..5, r \in 0..5 :
      InteriorBlinker(Constructed0.cells, c, r) =>
        /\ SameShape(game.cells, Constructed0.cells)
        /\ nticks % 2 = 0 => AliveSet(game.cells) = VerticalLine(c, r)
        /\ nticks % 2 = 1 => AliveSet(game.cells) = HorizontalLine(c, r)

\* the 4x6 blinker centred at column 2, row 3, after two ticks
C12_Witness ==
  /\ FromLayout /\ call.layout = blinker_offset /\ ~call.wrapping
  /\ InteriorBlinker(Constructed0.cells, 2, 3)
  /\ Ticked /\ nticks = 2
  /\ AliveSet(old.cells) = HorizontalLine(2, 3)
  /\ AliveSet(game.cells) = VerticalLine(2, 3)

\* C13: in non-wrapping mode the block fixture and the beehive fixture have
\* after any number of ticks the alive/dead pattern they were built with.
C13_StillLifes ==
  (FromLayout /\ ~call.wrapping /\ HasGame)
  => /\ call.layout = block
          => Pattern(game.cells, 4, 4, {<<1, 1>>, <<2, 1>>, <<1, 2>>, <<2, 2>>})
     /\ call.layout = beehive
          => Pattern(game.cells, 6, 5, {<<2, 1>>, <<3, 1>>, <<1, 2>>, <<4, 2>>,
                                        <<2, 3>>, <<3, 3>>})

C13_Witness ==
  /\ FromLayout /\ call.layout = beehive /\ ~call.wrapping
  /\ Ticked /\ nticks = 2 /\ game.cells = old.cells
  /\ Cardinality(AliveSet(game.cells)) = 6

RECURSIVE AliveInRows(_)
AliveInRows(cells) ==
  IF cells = <<>> THEN 0 ELSE CountAlive(Head(cells)) + AliveInRows(Tail(cells))

\* C14: in non-wrapping mode a grid built with at most one alive cell is
\* entirely dead after one tick and after every later tick.
C14_LonelyCellDies ==
  (HasGame /\ ~call.wrapping /\ AliveInRows(Constructed0.cells) <= 1 /\ nticks >= 1)
  => AliveInRows(game.cells) = 0

\* the centre cell of a 3x3 grid alone, then two ticks
C14_Witness ==
  /\ call.fn = "new" /\ ~call.wrapping /\ call.width = 3 /\ call.height = 3
  /\ AliveSet(Constructed0.cells) = {<<1, 1>>}
  /\ Ticked /\ nticks = 2 /\ AliveInRows(old.cells) = 0 /\ AliveInRows(game.cells) = 0

\* C15: tick never aborts, for every Game of Game::new (zero dimensions
\* included) or of a successful from_specific, in either mode and after any
\* number of ticks: no index out of range, no division by zero in wrap.
C15_TickNeverPanics ==
  /\ HasGame => ~tick_panics(game)
  /\ pc = "panicked" => (FromLayout /\ nticks = 0 /\ from_specific_panics(call.layout))

\* the second tick of a 1x1 grid in wrapping mode
C15_Witness ==
  /\ Ticked /\ nticks = 2 /\ call.fn = "new" /\ game.wrapping
  /\ Height(old.cells) = 1 /\ Width(old.cells) = 1
  /\ Height(game.cells) = 1 /\ Width(game.cells) = 1

\* tick of grids without rows or without columns
C15_WitnessEmpty ==
  /\ Ticked /\ call.fn = "new" /\ game.wrapping
  /\ call.width = 0 /\ call.height = 2 /\ game.cells = <<<<>>, <<>>>>

\* the next grid computed cell by cell from one snapshot of the grid g
SnapshotStep(g) ==
  [y \in 1..Len(g.cells) |->
     [x \in 1..Len(g.cells[y]) |->
        Cell(Life(g.cells[y][x].alive,
                  CountAlive(get_neighbours(g, x - 1, y - 1))))]]

\* C16: tick leaves the Game it is called on unchanged (cells,
\* iteration_count, wrapping), and every cell of the result is computed
\* from the old cells only.
C16_TickDoesNotMutate ==
  [][nticks' = nticks + 1 =>
       /\ old' = game
       /\ game'.cells = SnapshotStep(game)]_vars

\* a tick that changed cells, with the Game it was called on kept
C16_Witness ==
  /\ Ticked /\ nticks = 2 /\ old.iteration_count = 1
  /\ old.cells # game.cells
  /\ game.cells = SnapshotStep(old) /\ game.cells # InPlace(old, 1, 1).cells

\* C17: the wrapping flag of the Game tick returns is that of the Game it
\* was called on, so after any number of ticks it is the flag given at
\* construction.
C17_WrappingCarried ==
  /\ Ticked => game.wrapping = old.wrapping
  /\ HasGame => game.wrapping = call.wrapping

C17_Witness ==
  /\ Ticked /\ nticks = 2 /\ call.wrapping /\ old.wrapping /\ game.wrapping
  /\ Height(game.cells) >= 1

\* the n-th draw (n = 0, 1, ..) of the stream of a seed is even
DrawIsEven(seed, n) == NextU32(seed, n) % 2 = 0

\* number of cells before column x of row y in row-major order, both from 0
RowMajorIndex(width, x, y) == y * width + x

\* C18: Game::new is a function of its arguments: cell (x, y) takes the
\* draw of its row-major position in the seed's stream and is alive iff that
\* draw is even, the count is 0 and the flag the argument; the result of a
\* tick is a function of the Game it is called on.
C18_Deterministic ==
  /\ (Constructed /\ call.fn = "new") =>
       /\ Len(game.cells) = call.height
       /\ \A y \in 0..(call.height - 1) :
            /\ Len(game.cells[y + 1]) = call.width
            /\ \A x \in 0..(call.width - 1) :
                 CellAt(game.cells, x, y).alive
                   <=> DrawIsEven(call.seed, RowMajorIndex(call.width, x, y))
       /\ game.iteration_count = 0
       /\ game.wrapping = call.wrapping
  /\ Ticked =>
       game = Game(SnapshotStep(old), old.iteration_count + 1, old.wrapping)

\* seed 2 on a 2x2 grid: the second draw is odd, so only cell (1, 0) is dead
C18_Witness ==
  /\ Constructed /\ call.fn = "new" /\ call.seed = 2
  /\ call.width = 2 /\ call.height = 2
  /\ AliveSet(game.cells) = {<<0, 0>>, <<0, 1>>, <<1, 1>>}

\* C19: in wrapping mode, for every cell of every rectangular grid with
\* width >= 1 and height >= 1, the list get_neighbours builds has exactly
\* 8 entries, counted with multiplicity.
C19_EightNeighbours ==
  (HasGame /\ game.wrapping /\ Rectangular(game.cells)
     /\ Width(game.cells) >= 1 /\ Height(game.cells) >= 1)
  => \A y \in 0..(Height(game.cells) - 1), x \in 0..(Width(game.cells) - 1) :
       Len(get_neighbours(game, x, y)) = 8

\* C20: for every len >= 1 and idx in -1..len (the row indices tick passes
\* for a grid of len rows) wrap(idx, len) is idx mod len, a value in
\* 0..len-1 that names an existing row.
C20_WrapIsModulo ==
  (HasGame /\ game.wrapping /\ Len(game.cells) >= 1)
  => \A idx \in (0 - 1)..Len(game.cells) :
       /\ wrap(idx, Len(game.cells)) = Mod(idx, Len(game.cells))
       /\ wrap(idx, Len(game.cells)) \in 0..(Len(game.cells) - 1)
       /\ Get(game.cells, wrap(idx, Len(game.cells))) # <<>>

=============================================================================
